---------------------------- MODULE Spec2Model ----------------------------
(***************************************************************************)
(* Pod lifecycle controller of jetpack (jetpack/pod.go): manifest store,   *)
(* jail configuration builder, mount resolver, status oracle and the       *)
(* Kill / Destroy / Stage2 state machine of one pod.                       *)
(***************************************************************************)
EXTENDS Integers, Sequences, FiniteSets, TLC

(***************************************************************************)
(* Bounds of the model.                                                    *)
(***************************************************************************)
MaxJid == 2          \* job ids the OS hands out are 1..MaxJid
MaxSleeps == 2       \* backoff sleeps recorded per Kill call
MaxOps == 3          \* operations called on the pod in one behaviour
MaxMounts == 2       \* Mount bindings of the application (resolver inputs)
MaxFaults == 1       \* injected I/O or external-command failures per behaviour

(***************************************************************************)
(* PodStatus (pod.go 24-31).                                               *)
(***************************************************************************)
PodStatusInvalid == 0
PodStatusRunning == 1
PodStatusDying == 2
PodStatusStopped == 3

(***************************************************************************)
(* JailStatus: job id and dying flag.  NoJailStatus is the value the host  *)
(* returns for a jail that does not exist.                                 *)
(***************************************************************************)
JailStatus(jid, dying) == [Jid |-> jid, Dying |-> dying]

NoJailStatus == JailStatus(0, FALSE)

\* Every value of the JailStatus type within the bound.
JailStatusType == {JailStatus(j, d) : j \in 0..MaxJid, d \in BOOLEAN}

\* Mutant of Status: the dying flag is tested before the no-jail case is
\* recognised by job id alone.
StatusByJidOnly(status) ==
  IF status.Jid = 0 THEN PodStatusStopped
  ELSE IF status.Dying THEN PodStatusDying
  ELSE PodStatusRunning

\* Pod.Status on the status the query returned (the query's error is a panic,
\* taken in the actions).
Status(status) ==
  IF status = NoJailStatus THEN PodStatusStopped
  ELSE IF status.Dying THEN PodStatusDying
  ELSE PodStatusRunning

(***************************************************************************)
(* Errors.  NoErr is Go's nil error.                                       *)
(***************************************************************************)
Err(kind, detail) == [kind |-> kind, detail |-> detail]

NoErr == Err("nil", <<>>)

ErrNotFound == Err("ErrNotFound", <<>>)

(***************************************************************************)
(* Strings: prefix test, character replacement, Go's %#v quoting and the   *)
(* byte order sort.Strings uses.                                           *)
(***************************************************************************)
HasPrefix(s, p) == Len(s) >= Len(p) /\ SubSeq(s, 1, Len(p)) = p

\* strings.Replace(s, old, new, -1) for a one-character old.
Replace(s, old, new) ==
  LET R[i \in 0..Len(s)] ==
        IF i = 0 THEN ""
        ELSE R[i - 1] \o (IF SubSeq(s, i, i) = old THEN new ELSE SubSeq(s, i, i))
  IN R[Len(s)]

\* The escapes of Go's quoted-string syntax that the model's characters need.
Escape(s) ==
  LET E[i \in 0..Len(s)] ==
        IF i = 0 THEN ""
        ELSE LET c == SubSeq(s, i, i)
             IN E[i - 1] \o (IF c = "\"" THEN "\\\"" ELSE IF c = "\\" THEN "\\\\" ELSE c)
  IN E[Len(s)]

\* fmt's %#v of a string.
GoQuote(s) == "\"" \o Escape(s) \o "\""

\* The characters of the model's strings, in byte order.
Alphabet == " \"-./0123456789;=\\_abcdefghijklmnopqrstuvwxyz{}"

CharRank(c) == CHOOSE i \in 1..Len(Alphabet) : SubSeq(Alphabet, i, i) = c

\* Go's string order: bytewise, a proper prefix first.
StrLess(a, b) ==
  LET n == IF Len(a) < Len(b) THEN Len(a) ELSE Len(b)
      diff == {i \in 1..n : SubSeq(a, i, i) # SubSeq(b, i, i)}
  IN IF diff = {} THEN Len(a) < Len(b)
     ELSE LET i == CHOOSE k \in diff : \A j \in diff : k <= j
          IN CharRank(SubSeq(a, i, i)) < CharRank(SubSeq(b, i, i))

\* sort.Strings on the lines of a set (the table's entries, whose iteration
\* order Go leaves open): the i-th line has i-1 lines below it.
SortStrings(S) ==
  [i \in 1..Cardinality(S) |->
     CHOOSE x \in S : Cardinality({y \in S : StrLess(y, x)}) = i - 1] @@ <<>>

(***************************************************************************)
(* Host: paths and properties.                                             *)
(***************************************************************************)
UUID == "u1"

HostProperties == [interface |-> "lo1", namePrefix |-> "jetpack_", debug |-> FALSE]

PodPath == "/pods/" \o UUID

Path(elem) == PodPath \o "/" \o elem

jailName == HostProperties.namePrefix \o UUID

(***************************************************************************)
(* Annotations: an ordered list of name/value pairs.                       *)
(***************************************************************************)
Annotation(name, value) == [Name |-> name, Value |-> value]

\* Annotations.Get: the first annotation of that name.
AnnotationsGet(annos, name) ==
  LET hits == {i \in 1..Len(annos) : annos[i].Name = name}
  IN IF hits = {} THEN [ok |-> FALSE, value |-> ""]
     ELSE [ok |-> TRUE, value |-> annos[CHOOSE k \in hits : \A j \in hits : k <= j].Value]

\* Annotations.Set: replaces the first annotation of that name, else appends.
AnnotationsSet(annos, name, value) ==
  IF \E i \in 1..Len(annos) : annos[i].Name = name
  THEN LET i == CHOOSE k \in 1..Len(annos) :
                  annos[k].Name = name /\ \A j \in 1..(k - 1) : annos[j].Name # name
       IN [annos EXCEPT ![i] = Annotation(name, value)]
  ELSE Append(annos, Annotation(name, value))

JailConfPrefix == "jetpack/jail.conf/"

FstabAnnotation == JailConfPrefix \o "mount.fstab"

(***************************************************************************)
(* Jail Configuration Builder (Pod.jailConf).                              *)
(***************************************************************************)
\* parameters[k] = v on a Go map.
MapSet(p, k, v) == (k :> v) @@ p

\* The fixed parameters and the two derived from the pod and the host.
BaseParameters ==
  ("devfs_ruleset" :> "4") @@ ("exec.clean" :> "true") @@
  ("host.hostuuid" :> UUID) @@ ("interface" :> HostProperties.interface) @@
  ("mount.devfs" :> "true") @@ ("path" :> Path("rootfs")) @@ ("persist" :> "true")

\* The loop over the annotations under the reserved prefix, in list order.
InjectAnnotations(p, annos) ==
  LET F[i \in 0..Len(annos)] ==
        IF i = 0 THEN p
        ELSE LET antn == annos[i]
                 key == Replace(SubSeq(antn.Name, Len(JailConfPrefix) + 1, Len(antn.Name)),
                                "-", "_")
             IN IF HasPrefix(antn.Name, JailConfPrefix)
                THEN MapSet(F[i - 1], key, antn.Value)
                ELSE F[i - 1]
  IN F[Len(annos)]

ConfLine(k, v) == "  " \o k \o "=" \o GoQuote(v) \o ";"

\* Mutant of jailConf's table: the reserved-prefix annotations are applied
\* before ip4.addr is stored, so the ip-address annotation always wins.
ParametersIpLast(annos) ==
  LET hostname == AnnotationsGet(annos, "hostname")
      ip == AnnotationsGet(annos, "ip-address")
      p1 == MapSet(BaseParameters, "host.hostname",
                   IF hostname.ok THEN hostname.value ELSE BaseParameters["host.hostuuid"])
  IN MapSet(InjectAnnotations(p1, annos), "ip4.addr", ip.value)

\* The key -> value table jailConf builds when the ip-address annotation is present.
Parameters(annos) ==
  LET hostname == AnnotationsGet(annos, "hostname")
      ip == AnnotationsGet(annos, "ip-address")
      p1 == MapSet(BaseParameters, "host.hostname",
                   IF hostname.ok THEN hostname.value ELSE BaseParameters["host.hostuuid"])
      p2 == MapSet(p1, "ip4.addr", ip.value)
  IN InjectAnnotations(p2, annos)

\* jailConf: fatal (panic) without an ip-address annotation, else the named
\* block with one line per table entry, sorted by rendered text.
jailConf(annos) ==
  IF ~AnnotationsGet(annos, "ip-address").ok
  THEN [fatal |-> TRUE, block |-> "", lines |-> <<>>]
  ELSE LET p == Parameters(annos)
       IN [fatal |-> FALSE,
           block |-> GoQuote(jailName),
           lines |-> SortStrings({ConfLine(k, p[k]) : k \in DOMAIN p})]

(***************************************************************************)
(* Inputs: the manifests, images and annotation lists the model draws.     *)
(***************************************************************************)
ImageID == "sha512-a"

MountPoint(name, path, readOnly) == [Name |-> name, Path |-> path, ReadOnly |-> readOnly]

MountPointData == MountPoint("data", "/data", FALSE)

MountPointConfig == MountPoint("config", "/etc/app", TRUE)

\* types.App: the execution descriptor of an image or of a runtime app.
App(user, group, cwd, env, exec, mountPoints) ==
  [User |-> user, Group |-> group, WorkingDirectory |-> cwd, Environment |-> env,
   Exec |-> exec, MountPoints |-> mountPoints]

ImageApp(mountPoints) == App("www", "www", "", <<>>, <<"/bin/app">>, mountPoints)

\* An image manifest: its os label and its optional App (<<>> is nil).
Image(os, app) == [Name |-> "example.com/app", os |-> os, App |-> app]

MountPointLists == {<<>>, <<MountPointData>>, <<MountPointData, MountPointConfig>>}

\* What the store holds under ImageID: <<>> (no such image) or one image.
ImageChoices ==
  {<<>>} \cup {<<Image(os, app)>> :
                 os \in {"linux", "freebsd"},
                 app \in {<<>>} \cup {<<ImageApp(mps)>> : mps \in MountPointLists}}

Volume(name, kind, source, readOnly) ==
  [Name |-> name, Kind |-> kind, Source |-> source, ReadOnly |-> readOnly]

PodVolumes == <<Volume("v1", "host", "/srv/v1", <<>>), Volume("v2", "empty", "", <<TRUE>>)>>

Mount(volume, mountPoint) == [Volume |-> volume, MountPoint |-> mountPoint]

\* The bindings a manifest may declare: two that resolve, one naming an
\* unknown volume, one naming an unknown mount point.
MountChoices ==
  {Mount("v1", "data"), Mount("v2", "config"), Mount("vx", "config"), Mount("v1", "bogus")}

SeqsUpTo(S, n) == UNION {[1..k -> S] : k \in 0..n}

RuntimeApp(name, mounts, app) ==
  [Name |-> name, Image |-> ImageID, Mounts |-> mounts, App |-> app]

InlineApp == App("", "", "/srv", <<[Name |-> "HOME", Value |-> "/root"]>>, <<"/bin/sh">>, <<>>)

\* The application lists: none, one application with its bindings, or two.
AppLists(mountLists) ==
  {<<>>} \cup {<<RuntimeApp("app1", ms, <<>>)>> : ms \in mountLists}
         \cup {<<RuntimeApp("app1", <<>>, <<>>), RuntimeApp("app2", <<>>, <<InlineApp>>)>>}

AnnoIp == Annotation("ip-address", "10.0.0.2")

AnnoHostname == Annotation("hostname", "web")

AnnoIpOverride == Annotation(JailConfPrefix \o "ip4.addr", "10.9.9.9")

AnnoRawSockets == Annotation(JailConfPrefix \o "allow.raw-sockets", "1")

\* The annotation lists of the resolver's inputs.
AnnotationChoices ==
  {<<>>, <<AnnoIp>>, <<AnnoHostname, AnnoIp>>, <<AnnoIp, AnnoIpOverride>>,
   <<AnnoIpOverride>>, <<AnnoRawSockets, AnnoIp>>}

PodManifest(apps, volumes, annos, isolators) ==
  [Apps |-> apps, Volumes |-> volumes, Annotations |-> annos, Isolators |-> isolators]

\* The zero value of a manifest (a pod object before Load).
ZeroManifest == PodManifest(<<>>, <<>>, <<>>, <<>>)

\* Manifests of the resolver's checks: every binding list up to MaxMounts
\* under the plain ip-address annotation, and every annotation list under
\* the binding lists that resolve.
ResolverManifests ==
  {PodManifest(apps, PodVolumes, <<AnnoIp>>, <<>>) :
     apps \in AppLists(SeqsUpTo(MountChoices, MaxMounts))}
  \cup {PodManifest(apps, PodVolumes, annos, <<>>) :
          apps \in AppLists({<<>>, <<Mount("v1", "data")>>}), annos \in AnnotationChoices}

\* Manifests of the lifecycle's checks.
LifecycleManifests ==
  {PodManifest(apps, PodVolumes, annos, isolators) :
     apps \in AppLists({<<>>, <<Mount("v1", "data")>>}),
     annos \in {<<>>, <<AnnoIp>>},
     isolators \in {<<>>, <<"cpu">>}}

LifecycleImages == {<<>>, <<Image("linux", <<ImageApp(<<MountPointData>>)>>)>>, <<Image("freebsd", <<>>)>>}

\* Every annotation list a pod can carry: a drawn one, with or without the
\* fstab annotation the resolver registers.
AnnotationLists ==
  LET drawn == AnnotationChoices
  IN drawn \cup {AnnotationsSet(a, FstabAnnotation, Path("fstab")) : a \in drawn}

\* jailConf over the annotation lists of the model, evaluated once.
JailConfTable == [a \in AnnotationLists |-> jailConf(a)] @@ <<>>

JailConfOf(annos) == JailConfTable[annos]

(***************************************************************************)
(* Files of the pod directory.  A file is absent, complete with its data,  *)
(* or partial (a write that failed part-way).                              *)
(***************************************************************************)
Absent == [st |-> "absent"]

Partial == [st |-> "partial"]

Full(data) == [st |-> "full", data |-> data]

\* An event of the operation's trace: an external invocation or a
\* filesystem mutation.
Event(ev, arg) == [ev |-> ev, arg |-> arg]

\* ioutil.WriteFile into the pod directory: fails without touching anything
\* when the directory tree is gone, leaves a partial file when the write
\* itself fails.
WriteFile(fs, file, data, fail) ==
  IF ~fs.podDir THEN [ok |-> FALSE, fs |-> fs, log |-> <<>>]
  ELSE IF fail THEN [ok |-> FALSE, fs |-> [fs EXCEPT ![file] = Partial],
                     log |-> <<Event("write", file)>>]
  ELSE [ok |-> TRUE, fs |-> [fs EXCEPT ![file] = Full(data)],
        log |-> <<Event("write", file)>>]

\* strconv.Itoa for the volume indexes of the model.
Itoa(n) == SubSeq("0123456789", n + 1, n + 1)

\* Host.Path / path.Join of the pod directory with two elements.
PathJoin(dir, elem) == Path(dir) \o (IF HasPrefix(elem, "/") THEN elem ELSE "/" \o elem)

(***************************************************************************)
(* Image store of the host: lookup by hash.                                *)
(***************************************************************************)
GetImageByHash(store, id) ==
  IF id \in DOMAIN store /\ store[id] # <<>>
  THEN [err |-> NoErr, img |-> store[id]]
  ELSE [err |-> Err("ImageNotFound", <<id>>), img |-> <<>>]

(***************************************************************************)
(* Mount Resolver (Pod.prepJail).                                          *)
(***************************************************************************)
PrepResult(err, fatal, fs, annos, fstab, log) ==
  [err |-> err, fatal |-> fatal, fs |-> fs, annotations |-> annos, fstab |-> fstab, log |-> log]

LinuxCompat ==
  <<"linsys " \o PathJoin("rootfs", "sys") \o " linsysfs  rw 0 0\n",
    "linproc " \o PathJoin("rootfs", "proc") \o " linprocfs rw 0 0\n">>

\* The index (from 1) of the first volume of that name, 0 when there is none.
FindVolume(volumes, name) ==
  LET hits == {i \in 1..Len(volumes) : volumes[i].Name = name}
  IN IF hits = {} THEN 0 ELSE CHOOSE k \in hits : \A j \in hits : k <= j

\* The index (from 1) of the first mount point of that name, 0 when there is none.
FindMountPoint(mountPoints, name) ==
  LET hits == {i \in 1..Len(mountPoints) : mountPoints[i].Name = name}
  IN IF hits = {} THEN 0 ELSE CHOOSE k \in hits : \A j \in hits : k <= j

\* vol.ReadOnly is a *bool: <<>> is nil.
MountOpts(vol, mntPoint) ==
  IF (vol.ReadOnly # <<>> /\ vol.ReadOnly[1]) \/ mntPoint.ReadOnly THEN "ro" ELSE "rw"

FstabLine(hostPath, podPath, opts) ==
  hostPath \o " " \o podPath \o " nullfs " \o opts \o " 0 0\n"

\* Chown of the empty volume's directory to the owner of the mount point.
EmptyVolumeChown(acc, hostPath, io) ==
  IF io.failAt = "chown" THEN [acc EXCEPT !.err = Err("IO", <<"chown">>)]
  ELSE [acc EXCEPT !.fs.volumes[hostPath] = "mode+owner",
                   !.log = Append(acc.log, Event("chown", hostPath))]

\* Chmod of the empty volume's directory to the mode of the mount point.
EmptyVolumeChmod(acc, hostPath, io) ==
  IF io.failAt = "chmod" THEN [acc EXCEPT !.err = Err("IO", <<"chmod">>)]
  ELSE EmptyVolumeChown([acc EXCEPT !.fs.volumes[hostPath] = "mode",
                                    !.log = Append(acc.log, Event("chmod", hostPath))],
                        hostPath, io)

\* Stat of the image's mount point: a missing one is not an error.
EmptyVolumeStat(acc, hostPath, io) ==
  IF io.failAt = "stat" THEN [acc EXCEPT !.err = Err("IO", <<"stat">>)]
  ELSE IF ~io.statExists THEN acc
  ELSE EmptyVolumeChmod(acc, hostPath, io)

\* os.MkdirAll(hostPath, 0700): creates the directory unless it is there.
EmptyVolumeMkdir(acc, hostPath) ==
  IF hostPath \in DOMAIN acc.fs.volumes
  THEN [acc EXCEPT !.log = Append(acc.log, Event("mkdir", hostPath))]
  ELSE [acc EXCEPT !.fs.volumes = (hostPath :> "0700") @@ acc.fs.volumes,
                   !.log = Append(acc.log, Event("mkdir", hostPath))]

\* The empty-volume branch of one binding.  acc carries fs and log.
PrepEmptyVolume(acc, hostPath, io) ==
  IF io.failAt = "mkdir" THEN [acc EXCEPT !.err = Err("IO", <<"mkdir">>)]
  ELSE EmptyVolumeStat(EmptyVolumeMkdir(acc, hostPath), hostPath, io)

\* fstab = append(fstab, line), unless the binding failed.
PrepMountLine(acc, line) ==
  IF acc.err # NoErr THEN acc ELSE [acc EXCEPT !.fstab = Append(acc.fstab, line)]

\* A binding whose volume and mount point were found.
PrepBinding(acc, vol, volNo, mntPoint, io) ==
  IF vol.Kind = "empty"
  THEN PrepMountLine(PrepEmptyVolume(acc, PathJoin("volumes", Itoa(volNo)), io),
                     FstabLine(PathJoin("volumes", Itoa(volNo)),
                               PathJoin("rootfs", mntPoint.Path), MountOpts(vol, mntPoint)))
  ELSE PrepMountLine(acc, FstabLine(vol.Source, PathJoin("rootfs", mntPoint.Path),
                                    MountOpts(vol, mntPoint)))

\* Mutant of PrepMountFound: the mount point is looked up before the volume.
PrepMountFoundMountPointFirst(m, imgApp, acc, mnt, volIdx, mpIdx, io) ==
  IF mpIdx = 0 THEN [acc EXCEPT !.err = Err("MountPointNotFound", <<mnt.MountPoint>>)]
  ELSE IF volIdx = 0 THEN [acc EXCEPT !.err = Err("VolumeNotFound", <<mnt.Volume>>)]
  ELSE PrepBinding([acc EXCEPT !.fulfilled = acc.fulfilled \cup {mnt.MountPoint}],
                   m.Volumes[volIdx], volIdx - 1, imgApp.MountPoints[mpIdx], io)

\* The two lookups of a binding: the volume, then the mount point.
PrepMountFound(m, imgApp, acc, mnt, volIdx, mpIdx, io) ==
  IF volIdx = 0 THEN [acc EXCEPT !.err = Err("VolumeNotFound", <<mnt.Volume>>)]
  ELSE IF mpIdx = 0 THEN [acc EXCEPT !.err = Err("MountPointNotFound", <<mnt.MountPoint>>)]
  ELSE PrepBinding([acc EXCEPT !.fulfilled = acc.fulfilled \cup {mnt.MountPoint}],
                   m.Volumes[volIdx], volIdx - 1, imgApp.MountPoints[mpIdx], io)

\* One iteration of the loop over app.Mounts.
PrepMount(m, imgApp, acc, mnt, io) ==
  PrepMountFound(m, imgApp, acc, mnt, FindVolume(m.Volumes, mnt.Volume),
                 FindMountPoint(imgApp.MountPoints, mnt.MountPoint), io)

\* The loop over app.Mounts: stops at the first error.
PrepMounts(m, imgApp, acc0, mounts, io) ==
  LET L[i \in 0..Len(mounts)] ==
        IF i = 0 THEN acc0
        ELSE IF L[i - 1].err # NoErr THEN L[i - 1]
        ELSE PrepMount(m, imgApp, L[i - 1], mounts[i], io)
  IN L[Len(mounts)]

\* Mutant of Unfulfilled: only the first missing mount point is reported.
UnfulfilledFirstOnly(mountPoints, fulfilled) ==
  LET missing == {i \in 1..Len(mountPoints) : mountPoints[i].Name \notin fulfilled}
  IN IF missing = {} THEN <<>>
     ELSE <<mountPoints[CHOOSE k \in missing : \A j \in missing : k <= j].Name>>

\* The image's mount points no binding fulfilled, in declaration order.
Unfulfilled(mountPoints, fulfilled) ==
  LET U[i \in 0..Len(mountPoints)] ==
        IF i = 0 THEN <<>>
        ELSE IF mountPoints[i].Name \in fulfilled THEN U[i - 1]
        ELSE Append(U[i - 1], mountPoints[i].Name)
  IN U[Len(mountPoints)]

\* return errors.Trace(ioutil.WriteFile(c.Path("jail.conf"), ...)).
PrepConfWritten(annos, acc, w) ==
  PrepResult(IF w.ok THEN NoErr ELSE Err("IO", <<"write:jail.conf">>),
             FALSE, w.fs, annos, acc.fstab, acc.log \o w.log)

\* c.jailConf() is fatal without an ip-address annotation.
PrepConf(annos, acc, conf, io) ==
  IF conf.fatal THEN PrepResult(NoErr, TRUE, acc.fs, annos, acc.fstab, acc.log)
  ELSE PrepConfWritten(annos, acc,
                       WriteFile(acc.fs, "jailConf",
                                 [block |-> conf.block, lines |-> conf.lines],
                                 io.failAt = "write:jail.conf"))

\* Mutant of PrepFstabWritten: the path of the written fstab is not
\* registered in the annotations.
PrepFstabWrittenNoAnnotation(annos, acc, w, io) ==
  IF ~w.ok
  THEN PrepResult(Err("IO", <<"write:fstab">>), FALSE, w.fs, annos, acc.fstab, acc.log \o w.log)
  ELSE PrepConf(annos, [acc EXCEPT !.fs = w.fs, !.log = acc.log \o w.log], JailConfOf(annos), io)

\* After the fstab write: its error is returned, else the path is registered
\* under the reserved annotation prefix.
PrepFstabWritten(annos, acc, w, io) ==
  IF ~w.ok
  THEN PrepResult(Err("IO", <<"write:fstab">>), FALSE, w.fs, annos, acc.fstab, acc.log \o w.log)
  ELSE PrepConf(AnnotationsSet(annos, FstabAnnotation, Path("fstab")),
                [acc EXCEPT !.fs = w.fs, !.log = acc.log \o w.log],
                JailConfOf(AnnotationsSet(annos, FstabAnnotation, Path("fstab"))), io)

\* Mutant of PrepFinish: the fstab lines are never written to the file.
PrepFinishSkipFstab(annos, acc, io) == PrepConf(annos, acc, JailConfOf(annos), io)

\* The tail of prepJail: the fstab file and its annotation when any line was
\* produced, then jail.conf.
PrepFinish(annos, acc, io) ==
  IF Len(acc.fstab) > 0
  THEN PrepFstabWritten(annos, acc,
                        WriteFile(acc.fs, "fstab", acc.fstab, io.failAt = "write:fstab"), io)
  ELSE PrepConf(annos, acc, JailConfOf(annos), io)

\* After the loop: the loop's error, else the unfulfilled mount points.
PrepUnfulfilled(m, acc, unfulfilled, io) ==
  IF acc.err # NoErr
  THEN PrepResult(acc.err, FALSE, acc.fs, m.Annotations, acc.fstab, acc.log)
  ELSE IF Len(unfulfilled) > 0
  THEN PrepResult(Err("UnfulfilledMountPoints", unfulfilled), FALSE, acc.fs,
                  m.Annotations, acc.fstab, acc.log)
  ELSE PrepFinish(m.Annotations, acc, io)

PrepLoopDone(m, imgApp, acc, io) ==
  PrepUnfulfilled(m, acc, Unfulfilled(imgApp.MountPoints, acc.fulfilled), io)

PrepAcc(w, fstab) ==
  [err |-> NoErr, fs |-> w.fs, fstab |-> fstab, fulfilled |-> {}, log |-> w.log]

\* imgApp == nil skips the bindings (continue); else the loop over them.
PrepImageApp(m, app, img, acc, io) ==
  IF img.App = <<>> THEN PrepFinish(m.Annotations, acc, io)
  ELSE PrepLoopDone(m, img.App[1], PrepMounts(m, img.App[1], acc, app.Mounts, io), io)

\* After the copy of resolv.conf into the root filesystem.
PrepResolvWritten(m, app, img, fstab, w, io) ==
  IF ~w.ok
  THEN PrepResult(Err("IO", <<"write:resolv">>), FALSE, w.fs, m.Annotations, fstab, w.log)
  ELSE PrepImageApp(m, app, img, PrepAcc(w, fstab), io)

\* Mutant of PrepImage: the Linux compatibility lines follow the bindings'.
PrepImageNoCompat(m, app, img, fs0, io) ==
  IF io.failAt = "read:resolv"
  THEN PrepResult(Err("IO", <<"read:resolv">>), FALSE, fs0, m.Annotations, <<>>, <<>>)
  ELSE PrepResolvWritten(m, app, img, <<>>,
                         WriteFile(fs0, "resolv", "hostresolv", io.failAt = "write:resolv"), io)

\* The image was found: its Linux compatibility lines, then /etc/resolv.conf
\* is read and copied.
PrepImage(m, app, img, fs0, io) ==
  IF io.failAt = "read:resolv"
  THEN PrepResult(Err("IO", <<"read:resolv">>), FALSE, fs0, m.Annotations,
                  IF img.os = "linux" THEN LinuxCompat ELSE <<>>, <<>>)
  ELSE PrepResolvWritten(m, app, img, IF img.os = "linux" THEN LinuxCompat ELSE <<>>,
                         WriteFile(fs0, "resolv", "hostresolv", io.failAt = "write:resolv"), io)

PrepLookup(m, app, got, fs0, io) ==
  IF got.err # NoErr THEN PrepResult(got.err, FALSE, fs0, m.Annotations, <<>>, <<>>)
  ELSE PrepImage(m, app, got.img[1], fs0, io)

\* Pod.prepJail on manifest m, with the host's image store and the pod's
\* files fs0; io names the I/O call that fails (if any) and what Stat finds.
prepJail(m, images, fs0, io) ==
  IF Len(m.Apps) # 1
  THEN PrepResult(Err("OnlyOneApp", <<>>), FALSE, fs0, m.Annotations, <<>>, <<>>)
  ELSE PrepLookup(m, m.Apps[1], GetImageByHash(images, m.Apps[1].Image), fs0, io)

\* The I/O outcomes of one prepJail call: which call fails, what Stat finds.
FailPoints ==
  {"read:resolv", "write:resolv", "mkdir", "stat", "chmod", "chown", "write:fstab",
   "write:jail.conf"}

IoChoices == [failAt : FailPoints \cup {"none"}, statExists : BOOLEAN]

(***************************************************************************)
(* The manifest file: json.Marshal / json.Unmarshal of the manifest.       *)
(***************************************************************************)
\* A JSON object is a function from its keys to values; the fields tagged
\* omitempty are left out when nil or empty, and read back as the zero value.
JsonField(key, present, value) == IF present THEN key :> value ELSE <<>>


MarshalNameValue(e) == ("name" :> e.Name) @@ ("value" :> e.Value)

UnmarshalNameValue(j) == [Name |-> j["name"], Value |-> j["value"]]

MarshalMountPoint(p) ==
  ("name" :> p.Name) @@ ("path" :> p.Path)
    @@ JsonField("readOnly", p.ReadOnly, p.ReadOnly)

UnmarshalMountPoint(j) ==
  MountPoint(j["name"], j["path"], "readOnly" \in DOMAIN j /\ j["readOnly"])

MarshalApp(a) ==
  ("exec" :> a.Exec) @@ ("user" :> a.User) @@ ("group" :> a.Group)
    @@ JsonField("workingDirectory", a.WorkingDirectory # "", a.WorkingDirectory)
    @@ JsonField("environment", a.Environment # <<>>,
                 [i \in DOMAIN a.Environment |-> MarshalNameValue(a.Environment[i])] @@ <<>>)
    @@ JsonField("mountPoints", a.MountPoints # <<>>,
                 [i \in DOMAIN a.MountPoints |-> MarshalMountPoint(a.MountPoints[i])] @@ <<>>)

UnmarshalApp(j) ==
  App(j["user"], j["group"],
      IF "workingDirectory" \in DOMAIN j THEN j["workingDirectory"] ELSE "",
      IF "environment" \in DOMAIN j
      THEN [i \in DOMAIN j["environment"] |-> UnmarshalNameValue(j["environment"][i])] @@ <<>> ELSE <<>>,
      j["exec"],
      IF "mountPoints" \in DOMAIN j
      THEN [i \in DOMAIN j["mountPoints"] |-> UnmarshalMountPoint(j["mountPoints"][i])] @@ <<>> ELSE <<>>)

MarshalMount(mnt) == ("volume" :> mnt.Volume) @@ ("mountPoint" :> mnt.MountPoint)

UnmarshalMount(j) == Mount(j["volume"], j["mountPoint"])

MarshalRuntimeApp(a) ==
  ("name" :> a.Name) @@ ("image" :> ("id" :> a.Image))
    @@ JsonField("app", a.App # <<>>, IF a.App # <<>> THEN MarshalApp(a.App[1]) ELSE <<>>)
    @@ JsonField("mounts", a.Mounts # <<>>, [i \in DOMAIN a.Mounts |-> MarshalMount(a.Mounts[i])] @@ <<>>)

UnmarshalRuntimeApp(j) ==
  [Name |-> j["name"], Image |-> j["image"]["id"],
   Mounts |-> IF "mounts" \in DOMAIN j THEN [i \in DOMAIN j["mounts"] |-> UnmarshalMount(j["mounts"][i])] @@ <<>> ELSE <<>>,
   App |-> IF "app" \in DOMAIN j THEN <<UnmarshalApp(j["app"])>> ELSE <<>>]

\* Mutant of MarshalVolume: the readOnly pointer is never written.
MarshalVolumeNoReadOnly(v) ==
  ("name" :> v.Name) @@ ("kind" :> v.Kind)
    @@ JsonField("source", v.Source # "", v.Source)

\* A volume: source and the readOnly pointer are omitempty.
MarshalVolume(v) ==
  ("name" :> v.Name) @@ ("kind" :> v.Kind)
    @@ JsonField("source", v.Source # "", v.Source)
    @@ JsonField("readOnly", v.ReadOnly # <<>>, IF v.ReadOnly # <<>> THEN v.ReadOnly[1] ELSE FALSE)

UnmarshalVolume(j) ==
  Volume(j["name"], j["kind"],
         IF "source" \in DOMAIN j THEN j["source"] ELSE "",
         IF "readOnly" \in DOMAIN j THEN <<j["readOnly"]>> ELSE <<>>)

\* json.Marshal(c.Manifest): the pod manifest document.
Marshal(m) ==
  ("acKind" :> "PodManifest")
    @@ ("apps" :> [i \in DOMAIN m.Apps |-> MarshalRuntimeApp(m.Apps[i])] @@ <<>>)
    @@ ("volumes" :> [i \in DOMAIN m.Volumes |-> MarshalVolume(m.Volumes[i])] @@ <<>>)
    @@ ("isolators" :> m.Isolators)
    @@ ("annotations" :> [i \in DOMAIN m.Annotations |-> MarshalNameValue(m.Annotations[i])] @@ <<>>)

\* json.Unmarshal(manifestJSON, &c.Manifest): every field of the manifest
\* is replaced by the document's.
Unmarshal(data) ==
  PodManifest([i \in DOMAIN data["apps"] |-> UnmarshalRuntimeApp(data["apps"][i])] @@ <<>>,
              [i \in DOMAIN data["volumes"] |-> UnmarshalVolume(data["volumes"][i])] @@ <<>>,
              [i \in DOMAIN data["annotations"] |-> UnmarshalNameValue(data["annotations"][i])] @@ <<>>,
              data["isolators"])

(***************************************************************************)
(* The OS jail facility: `jail -f jail.conf <verbosity> <op> <name>`.      *)
(* -c creates the jail with a fresh job id; -r removes a running jail,     *)
(* which is then gone or lingers dying.  A jail that is not there cannot   *)
(* be removed; a running one cannot be created again.                      *)
(***************************************************************************)
JailCommand(flag, jail, cmdOk, newJid, lingers) ==
  IF flag = "-c"
  THEN IF jail.Jid # 0 /\ ~jail.Dying THEN [err |-> Err("Command", <<"jail", flag>>), jail |-> jail]
       ELSE IF cmdOk THEN [err |-> NoErr, jail |-> JailStatus(newJid, FALSE)]
       ELSE [err |-> Err("Command", <<"jail", flag>>), jail |-> jail]
  ELSE IF jail.Jid = 0 \/ jail.Dying THEN [err |-> Err("Command", <<"jail", flag>>), jail |-> jail]
       ELSE IF cmdOk
       THEN [err |-> NoErr, jail |-> IF lingers THEN JailStatus(jail.Jid, TRUE) ELSE NoJailStatus]
       ELSE [err |-> Err("Command", <<"jail", flag>>), jail |-> jail]

(***************************************************************************)
(* State.                                                                  *)
(***************************************************************************)
VARIABLES
  pod,      \* the Pod object: its Manifest and its sealed flag
  fs,       \* the pod's directory tree and its backing dataset
  jail,     \* the OS's status of the pod's jail
  store,    \* the host's image store
  th,       \* per caller: position, locals, result and trace of its operation
  hist,     \* successful Loads and Saves so far, and the manifest last saved
  nops,     \* operations called so far
  faults    \* I/O and command failures injected so far

vars == <<pod, fs, jail, store, th, hist, nops, faults>>

NoIo == [failAt |-> "none", statExists |-> FALSE]

NoPrep ==
  [ran |-> FALSE, m |-> ZeroManifest, io |-> NoIo,
   res |-> PrepResult(NoErr, FALSE, <<>>, <<>>, <<>>, <<>>)]

\* A caller between operations.
IdleThread ==
  [pc |-> "idle", op |-> "", ret |-> NoErr, log |-> <<>>, jid |-> 0,
   status |-> PodStatusInvalid, observed |-> <<>>, sleeps |-> 0, name |-> "", idx |-> 0,
   app |-> <<>>, prep |-> NoPrep]

FreshFs ==
  [podDir |-> TRUE, dataset |-> TRUE, manifest |-> Absent, resolv |-> Absent,
   fstab |-> Absent, jailConf |-> Absent, volumes |-> <<>>]

\* The pod starts either as a new object holding its manifest, not yet
\* saved, with no jail; or as a handle on a saved pod (LoadPod's &Pod{UUID,
\* Host}) whose jail may be up.
InitOver(manifests, images, statuses, callers) ==
  /\ store \in [{ImageID} -> images]
  /\ \E m \in manifests :
       \/ /\ pod = [Manifest |-> m, sealed |-> FALSE]
          /\ fs = FreshFs
          /\ jail = NoJailStatus
          /\ hist = [loads |-> 0, saves |-> 0, saved |-> <<>>, serialized |-> TRUE]
       \/ /\ pod = [Manifest |-> ZeroManifest, sealed |-> FALSE]
          /\ \E ds \in BOOLEAN :
               fs = [FreshFs EXCEPT !.manifest = Full(Marshal(m)), !.dataset = ds]
          /\ jail \in statuses
          /\ hist = [loads |-> 0, saves |-> 0, saved |-> <<m>>, serialized |-> TRUE]
  /\ th = [t \in callers |-> IdleThread]
  /\ nops = 0
  /\ faults = 0

Init == InitOver(LifecycleManifests, LifecycleImages, {NoJailStatus, JailStatus(1, FALSE)}, {1})

(***************************************************************************)
(* Helpers of the actions.                                                 *)
(***************************************************************************)
\* Mutant of MayCall: callers never wait for one another.
MayCallUnserialized(t) ==
  /\ th[t].pc = "idle"
  /\ nops < MaxOps

\* A caller may call when it is idle; callers that serialize operations on
\* the pod call one at a time.  Pod itself holds no lock.
MayCall(t) ==
  /\ th[t].pc = "idle"
  /\ hist.serialized => \A u \in DOMAIN th : th[u].pc = "idle"
  /\ nops < MaxOps

\* An injected failure spends the budget.
Fault(failed) ==
  /\ failed => faults < MaxFaults
  /\ faults' = IF failed THEN faults + 1 ELSE faults

Begin(op, pc) == [IdleThread EXCEPT !.pc = pc, !.op = op]

Done(rec, err) == [rec EXCEPT !.pc = "done", !.ret = err]

Panicked(rec) == [rec EXCEPT !.pc = "panicked"]

Logged(rec, events) == [rec EXCEPT !.log = rec.log \o events]

(***************************************************************************)
(* Manifest Store.                                                         *)
(***************************************************************************)
\* Pod.Save: marshal, write the manifest file, seal.
Save(t) ==
  /\ MayCall(t)
  /\ \E outcome \in {"ok", "marshal", "write"} :
       /\ Fault(outcome # "ok")
       /\ LET rec == Begin("Save", "done")
              w == WriteFile(fs, "manifest", Marshal(pod.Manifest), outcome = "write")
          IN IF outcome = "marshal"
             THEN /\ th' = [th EXCEPT ![t] = Done(rec, Err("Marshal", <<>>))]
                  /\ UNCHANGED <<pod, fs, hist>>
             ELSE /\ fs' = w.fs
                  /\ th' = [th EXCEPT ![t] =
                              Done(Logged(rec, w.log),
                                   IF w.ok THEN NoErr ELSE Err("IO", <<"write:manifest">>))]
                  /\ pod' = IF w.ok THEN [pod EXCEPT !.sealed = TRUE] ELSE pod
                  /\ hist' = IF w.ok THEN [hist EXCEPT !.saves = @ + 1,
                                                       !.saved = <<pod.Manifest>>]
                             ELSE hist
  /\ nops' = nops + 1
  /\ UNCHANGED <<jail, store>>

\* Pod.Exists: the manifest file is there.
Exists(files) == files.podDir /\ files.manifest.st # "absent"

\* Mutant of LoadValidate: the isolators are not looked at.
LoadValidateNoIsolators(m) ==
  IF Len(m.Apps) = 0 THEN Err("NoApplication", <<>>)
  ELSE IF Len(m.Apps) > 1 THEN Err("MultiApplication", <<>>)
  ELSE NoErr

\* The checks of Load on the manifest it has read.
LoadValidate(m) ==
  IF Len(m.Apps) = 0 THEN Err("NoApplication", <<>>)
  ELSE IF Len(m.Apps) > 1 THEN Err("MultiApplication", <<>>)
  ELSE IF Len(m.Isolators) # 0 THEN Err("Isolators", <<>>)
  ELSE NoErr

\* Mutant of LoadSealedCheck: a sealed pod is loaded again.
LoadSealedCheckSkipped(p) == FALSE

\* The guard of Load: a sealed pod must not be loaded.
LoadSealedCheck(p) == p.sealed

\* Pod.Load on the pod object p: panics on a sealed pod; else Exists,
\* readManifest, the checks, and the seal.  The manifest read stays in the
\* object when a check fails.
LoadOn(t, p, op) ==
  /\ MayCall(t)
  /\ \E outcome \in {"ok", "stat", "read"} :
       /\ Fault(outcome # "ok")
       /\ LET rec == Begin(op, "done")
              read == Logged(rec, <<Event("read", "manifest")>>)
          IN IF LoadSealedCheck(p)
             THEN /\ th' = [th EXCEPT ![t] = Panicked(rec)]
                  /\ pod' = p /\ UNCHANGED hist
             ELSE IF outcome = "stat"
             THEN /\ th' = [th EXCEPT ![t] = Panicked(rec)]
                  /\ pod' = p /\ UNCHANGED hist
             ELSE IF ~Exists(fs)
             THEN /\ th' = [th EXCEPT ![t] = Done(rec, ErrNotFound)]
                  /\ pod' = p /\ UNCHANGED hist
             ELSE IF outcome = "read"
             THEN /\ th' = [th EXCEPT ![t] = Done(rec, Err("IO", <<"read:manifest">>))]
                  /\ pod' = p /\ UNCHANGED hist
             ELSE IF fs.manifest.st = "partial"
             THEN /\ th' = [th EXCEPT ![t] = Done(read, Err("Unmarshal", <<>>))]
                  /\ pod' = p /\ UNCHANGED hist
             ELSE LET m == Unmarshal(fs.manifest.data)
                      err == LoadValidate(m)
                  IN /\ th' = [th EXCEPT ![t] = Done(read, err)]
                     /\ pod' = [Manifest |-> m, sealed |-> (err = NoErr) \/ p.sealed]
                     /\ hist' = IF err = NoErr THEN [hist EXCEPT !.loads = @ + 1] ELSE hist
  /\ nops' = nops + 1
  /\ UNCHANGED <<fs, jail, store>>

\* Pod.Load is called on the pod object.
Load(t) == LoadOn(t, pod, "Load")

\* LoadPod: a new object &Pod{UUID, Host} for the pod, and Load on it.
LoadPod(t) == LoadOn(t, [Manifest |-> ZeroManifest, sealed |-> FALSE], "LoadPod")

(***************************************************************************)
(* runJail: prepJail, then the jail command.                               *)
(***************************************************************************)
\* The outcomes of the jail command: whether it succeeds, the job id a
\* created jail gets, whether a removed jail lingers dying.
CmdChoices(flag) ==
  IF flag = "-c"
  THEN [ok : BOOLEAN, newJid : (1..MaxJid) \ {jail.Jid}, lingers : {FALSE}]
  ELSE [ok : BOOLEAN, newJid : {0}, lingers : BOOLEAN]

\* Mutant of runJail: the command is issued whatever prepJail returned.
runJailIgnoringPrepError(flag, io, res, cmd) ==
  LET out == JailCommand(flag, jail, cmd.ok, cmd.newJid, cmd.lingers)
  IN [prep |-> [ran |-> TRUE, m |-> pod.Manifest, io |-> io, res |-> res],
      fatal |-> res.fatal,
      issued |-> ~res.fatal,
      err |-> out.err,
      jail |-> IF ~res.fatal THEN out.jail ELSE jail,
      log |-> res.log \o (IF ~res.fatal THEN <<Event("jail", flag)>> ELSE <<>>)]

\* Pod.runJail(flag), given prepJail's result res under the I/O outcome io:
\* prepJail's error is returned as it is, else the jail command is issued.
runJail(flag, io, res, cmd) ==
  LET out == JailCommand(flag, jail, cmd.ok, cmd.newJid, cmd.lingers)
      issued == res.err = NoErr /\ ~res.fatal
  IN [prep |-> [ran |-> TRUE, m |-> pod.Manifest, io |-> io, res |-> res],
      fatal |-> res.fatal,
      issued |-> issued,
      err |-> IF issued THEN out.err ELSE res.err,
      jail |-> IF issued THEN out.jail ELSE jail,
      log |-> res.log \o (IF issued THEN <<Event("jail", flag)>> ELSE <<>>)]

\* An injected I/O failure is one that takes effect; the command's outcome
\* is drawn only when the command is issued.
IoTakesEffect(io, res) == io.failAt # "none" => res.err = Err("IO", <<io.failAt>>)

CmdTakesEffect(flag, r, cmd) ==
  IF r.issued THEN (~cmd.ok) => r.err # NoErr
  ELSE cmd = CHOOSE c \in CmdChoices(flag) : c.ok

\* Where the caller of runJail goes on: Kill retries its switch, Stage2
\* reads the job id; both return runJail's error.
AfterRunJail(flag, rec, r) ==
  IF r.fatal THEN Panicked(rec)
  ELSE IF flag = "-r"
  THEN (IF r.err # NoErr THEN Done(rec, r.err) ELSE [rec EXCEPT !.pc = "kill_status"])
  ELSE (IF r.err # NoErr THEN Done(rec, r.err) ELSE [rec EXCEPT !.pc = "stage2_jid"])

\* One call of runJail by caller t and its effect on the files, the
\* annotations and the jail.
RunJailDone(t, flag, io, cmd, r) ==
  /\ CmdTakesEffect(flag, r, cmd)
  /\ Fault(io.failAt # "none" \/ (r.issued /\ ~cmd.ok))
  /\ fs' = r.prep.res.fs
  /\ pod' = [pod EXCEPT !.Manifest.Annotations = r.prep.res.annotations]
  /\ jail' = r.jail
  /\ th' = [th EXCEPT ![t] =
              AfterRunJail(flag, [Logged(th[t], r.log) EXCEPT !.prep = r.prep], r)]

RunJailPrepared(t, flag, io, res) ==
  /\ IoTakesEffect(io, res)
  /\ \E cmd \in CmdChoices(flag) : RunJailDone(t, flag, io, cmd, runJail(flag, io, res, cmd))

RunJailCall(t, flag) ==
  \E io \in IoChoices : RunJailPrepared(t, flag, io, prepJail(pod.Manifest, store, fs, io))

(***************************************************************************)
(* Lifecycle Controller: Kill.                                             *)
(***************************************************************************)
\* Kill returns err: to its caller, or into Destroy, which goes on to the
\* dataset only when Kill succeeded.
KillReturn(rec, err) ==
  IF rec.op = "Destroy" /\ err = NoErr THEN [rec EXCEPT !.pc = "destroy_dataset"]
  ELSE Done(rec, err)

\* Pod.Kill is called.
CallKill(t) ==
  /\ MayCall(t)
  /\ th' = [th EXCEPT ![t] = Begin("Kill", "kill_status")]
  /\ nops' = nops + 1
  /\ UNCHANGED <<pod, fs, jail, store, hist, faults>>

\* Mutant of KillBranch: a stopped pod's jail is removed once more.
KillBranchRemoveStopped(rec, status) ==
  IF status \in {PodStatusStopped, PodStatusRunning} THEN [rec EXCEPT !.pc = "kill_remove"]
  ELSE IF status = PodStatusDying
  THEN [Logged(rec, <<Event("sleep", "2500ms")>>) EXCEPT !.sleeps = @ + 1]
  ELSE KillReturn(rec, Err("Confused", <<status>>))

\* Mutant of KillBranch: a dying pod's jail is removed instead of waited for.
KillBranchRemoveDying(rec, status) ==
  IF status = PodStatusStopped THEN KillReturn(rec, NoErr)
  ELSE IF status \in {PodStatusRunning, PodStatusDying} THEN [rec EXCEPT !.pc = "kill_remove"]
  ELSE KillReturn(rec, Err("Confused", <<status>>))

\* Mutant of KillBranch: Kill gives up on a dying pod and returns success.
KillBranchDyingReturns(rec, status) ==
  IF status \in {PodStatusStopped, PodStatusDying} THEN KillReturn(rec, NoErr)
  ELSE IF status = PodStatusRunning THEN [rec EXCEPT !.pc = "kill_remove"]
  ELSE KillReturn(rec, Err("Confused", <<status>>))

\* Mutant of KillBranch: a running pod is waited for like a dying one.
KillBranchWaitRunning(rec, status) ==
  IF status = PodStatusStopped THEN KillReturn(rec, NoErr)
  ELSE IF status \in {PodStatusRunning, PodStatusDying}
  THEN [Logged(rec, <<Event("sleep", "2500ms")>>) EXCEPT !.sleeps = @ + 1]
  ELSE KillReturn(rec, Err("Confused", <<status>>))

\* The switch of Kill on the status it read.
KillBranch(rec, status) ==
  IF status = PodStatusStopped THEN KillReturn(rec, NoErr)
  ELSE IF status = PodStatusRunning THEN [rec EXCEPT !.pc = "kill_remove"]
  ELSE IF status = PodStatusDying
  THEN [Logged(rec, <<Event("sleep", "2500ms")>>) EXCEPT !.sleeps = @ + 1]
  ELSE KillReturn(rec, Err("Confused", <<status>>))

\* retry: switch status := c.Status().  A failed status query panics.
KillStatus(t) ==
  /\ th[t].pc = "kill_status"
  /\ \E queryOk \in BOOLEAN :
       /\ Fault(~queryOk)
       /\ LET status == Status(jail)
              rec == [th[t] EXCEPT !.status = status, !.observed = Append(@, status)]
          IN /\ KillBranch(rec, status).sleeps <= MaxSleeps
             /\ th' = [th EXCEPT ![t] = IF queryOk THEN KillBranch(rec, status)
                                        ELSE Panicked(th[t])]
  /\ UNCHANGED <<pod, fs, jail, store, hist, nops>>

\* case PodStatusRunning: c.runJail("-r"), then goto retry.
KillRemove(t) ==
  /\ th[t].pc = "kill_remove"
  /\ RunJailCall(t, "-r")
  /\ UNCHANGED <<store, hist, nops>>

(***************************************************************************)
(* Lifecycle Controller: Destroy.                                          *)
(***************************************************************************)
\* Pod.Destroy is called: jid := c.Jid(); Kill when it is not 0.
CallDestroy(t) ==
  /\ MayCall(t)
  /\ \E queryOk \in BOOLEAN :
       /\ Fault(~queryOk)
       /\ LET rec == [Begin("Destroy", "destroy_dataset") EXCEPT !.jid = jail.Jid]
          IN th' = [th EXCEPT ![t] =
                      IF ~queryOk THEN Panicked(Begin("Destroy", "idle"))
                      ELSE IF jail.Jid # 0 THEN [rec EXCEPT !.pc = "kill_status"]
                      ELSE rec]
  /\ nops' = nops + 1
  /\ UNCHANGED <<pod, fs, jail, store, hist>>

\* Mutant of DestroyDatasetStep: a failed dataset destruction is ignored.
DestroyDatasetStepPlowThrough(rec, files, outcome) ==
  IF outcome = "lookup" THEN [rec |-> Panicked(rec), fs |-> files]
  ELSE IF ~files.dataset THEN [rec |-> [rec EXCEPT !.pc = "destroy_remove"], fs |-> files]
  ELSE IF outcome = "destroy"
  THEN [rec |-> [Logged(rec, <<Event("zfs", "destroy -r")>>) EXCEPT !.pc = "destroy_remove"],
        fs |-> files]
  ELSE [rec |-> [Logged(rec, <<Event("zfs", "destroy -r")>>) EXCEPT !.pc = "destroy_remove"],
        fs |-> [files EXCEPT !.dataset = FALSE]]

\* getDataset (a failed lookup panics; no dataset is nil) and ds.Destroy("-r").
DestroyDatasetStep(rec, files, outcome) ==
  IF outcome = "lookup" THEN [rec |-> Panicked(rec), fs |-> files]
  ELSE IF ~files.dataset THEN [rec |-> [rec EXCEPT !.pc = "destroy_remove"], fs |-> files]
  ELSE IF outcome = "destroy"
  THEN [rec |-> Done(Logged(rec, <<Event("zfs", "destroy -r")>>),
                     Err("Command", <<"zfs", "destroy">>)),
        fs |-> files]
  ELSE [rec |-> [Logged(rec, <<Event("zfs", "destroy -r")>>) EXCEPT !.pc = "destroy_remove"],
        fs |-> [files EXCEPT !.dataset = FALSE]]

DestroyDataset(t) ==
  /\ th[t].pc = "destroy_dataset"
  /\ \E outcome \in {"ok", "lookup", "destroy"} :
       /\ outcome = "destroy" => fs.dataset
       /\ Fault(outcome # "ok")
       /\ LET step == DestroyDatasetStep(th[t], fs, outcome)
          IN /\ th' = [th EXCEPT ![t] = step.rec]
             /\ fs' = step.fs
  /\ UNCHANGED <<pod, jail, store, hist, nops>>

\* os.RemoveAll(c.Path()): the whole directory tree of the pod.
RemoveAll(files) ==
  [files EXCEPT !.podDir = FALSE, !.manifest = Absent, !.resolv = Absent,
                !.fstab = Absent, !.jailConf = Absent, !.volumes = <<>>]

DestroyRemove(t) ==
  /\ th[t].pc = "destroy_remove"
  /\ \E ok \in BOOLEAN :
       /\ Fault(~ok)
       /\ LET rec == Logged(th[t], <<Event("removeAll", PodPath)>>)
          IN /\ th' = [th EXCEPT ![t] =
                         Done(rec, IF ok THEN NoErr ELSE Err("IO", <<"removeAll">>))]
             /\ fs' = IF ok THEN RemoveAll(fs) ELSE fs
  /\ UNCHANGED <<pod, jail, store, hist, nops>>

(***************************************************************************)
(* App Launcher and Lifecycle Controller: Stage2 and its entry points.     *)
(***************************************************************************)
\* The console application: an interactive shell as the given user.
ConsoleApp(user) == App(user, "", "", <<>>, <<"/bin/sh">>, <<>>)

\* Apps.Get(name): the index (from 1) of the first application of that name, 0 for nil.
AppsGet(apps, name) ==
  LET hits == {i \in 1..Len(apps) : apps[i].Name = name}
  IN IF hits = {} THEN 0 ELSE CHOOSE k \in hits : \A j \in hits : k <= j

\* runRuntimeApp: the application's own descriptor, else the image's, else
\* the console as root.
RuntimeAppDescriptor(rtapp) ==
  IF rtapp.App # <<>> THEN [err |-> NoErr, app |-> rtapp.App[1]]
  ELSE LET got == GetImageByHash(store, rtapp.Image)
       IN IF got.err # NoErr THEN [err |-> got.err, app |-> ConsoleApp("")]
          ELSE IF got.img[1].App = <<>> THEN [err |-> NoErr, app |-> ConsoleApp("root")]
          ELSE [err |-> NoErr, app |-> got.img[1].App[1]]

\* The argument vector of the stage2 launcher.
Stage2Args(jid, name, app) ==
  LET env == [i \in 1..Len(app.Environment) |->
                <<"-setenv", app.Environment[i].Name \o "=" \o app.Environment[i].Value>>]
      Flat[i \in 0..Len(env)] == IF i = 0 THEN <<>> ELSE Flat[i - 1] \o env[i]
  IN <<"-jid", Itoa(jid), "-user", IF app.User = "" THEN "root" ELSE app.User,
       "-group", app.Group, "-name", name>>
     \o (IF app.WorkingDirectory # "" THEN <<"-cwd", app.WorkingDirectory>> ELSE <<>>)
     \o Flat[Len(env)]
     \o app.Exec

\* Mutant of Stage2Enter: the jail is created whatever the job id.
Stage2EnterAlwaysCreate(rec, name, app, jid) ==
  [rec EXCEPT !.name = name, !.app = <<app>>, !.jid = jid, !.pc = "stage2_create"]

\* Stage2's first lines: jid := c.Jid(); the jail is created when it is 0.
Stage2Enter(rec, name, app, jid) ==
  [rec EXCEPT !.name = name, !.app = <<app>>, !.jid = jid,
              !.pc = IF jid = 0 THEN "stage2_create" ELSE "stage2_launch"]

\* The entry points: what each resolves before it reaches Stage2.
\*   RunApp(name), RunNthApp(idx), Console(name, user), Stage2(name, app)
EntryCalls ==
  {[op |-> "RunApp", name |-> n, idx |-> 0, user |-> ""] : n \in {"app1", "nope"}}
  \cup {[op |-> "RunNthApp", name |-> "", idx |-> i, user |-> ""] : i \in 0..2}
  \cup {[op |-> "Console", name |-> "app1", idx |-> 0, user |-> "root"]}

\* Mutant of EntryResolve: RunApp falls back to the first application when
\* none has the name.
EntryResolveFirstForUnknown(call) ==
  LET apps == pod.Manifest.Apps
      found == IF call.op = "RunApp" THEN AppsGet(apps, call.name) ELSE call.idx + 1
      i == IF found = 0 /\ apps # <<>> THEN 1 ELSE found
  IN IF call.op = "Console"
     THEN [err |-> NoErr, name |-> call.name, app |-> ConsoleApp(call.user)]
     ELSE IF call.op = "RunApp" /\ i = 0
     THEN [err |-> ErrNotFound, name |-> "", app |-> ConsoleApp("")]
     ELSE IF call.op = "RunNthApp" /\ Len(apps) <= call.idx
     THEN [err |-> ErrNotFound, name |-> "", app |-> ConsoleApp("")]
     ELSE LET d == RuntimeAppDescriptor(apps[i])
          IN [err |-> d.err, name |-> apps[i].Name, app |-> d.app]

\* What the entry point hands to Stage2, or the error it returns itself.
EntryResolve(call) ==
  LET apps == pod.Manifest.Apps
      i == IF call.op = "RunApp" THEN AppsGet(apps, call.name) ELSE call.idx + 1
  IN IF call.op = "Console"
     THEN [err |-> NoErr, name |-> call.name, app |-> ConsoleApp(call.user)]
     ELSE IF call.op = "RunApp" /\ i = 0
     THEN [err |-> ErrNotFound, name |-> "", app |-> ConsoleApp("")]
     ELSE IF call.op = "RunNthApp" /\ Len(apps) <= call.idx
     THEN [err |-> ErrNotFound, name |-> "", app |-> ConsoleApp("")]
     ELSE LET d == RuntimeAppDescriptor(apps[i])
          IN [err |-> d.err, name |-> apps[i].Name, app |-> d.app]

\* RunApp, RunNthApp or Console is called; Stage2 starts with its Jid().
CallStage2(t) ==
  /\ MayCall(t)
  /\ \E call \in EntryCalls :
       LET e == EntryResolve(call)
           rec == [Begin(call.op, "done") EXCEPT !.name = call.name, !.idx = call.idx]
       IN IF e.err # NoErr
          THEN /\ th' = [th EXCEPT ![t] = Done(rec, e.err)]
               /\ UNCHANGED faults
          ELSE \E queryOk \in BOOLEAN :
                 /\ Fault(~queryOk)
                 /\ th' = [th EXCEPT ![t] =
                             IF queryOk THEN Stage2Enter(rec, e.name, e.app, jail.Jid)
                             ELSE Panicked(rec)]
  /\ nops' = nops + 1
  /\ UNCHANGED <<pod, fs, jail, store, hist>>

\* if jid == 0: c.runJail("-c").
Stage2Create(t) ==
  /\ th[t].pc = "stage2_create"
  /\ RunJailCall(t, "-c")
  /\ UNCHANGED <<store, hist, nops>>

\* jid = c.Jid() after the create; still 0 is a panic.
Stage2Jid(t) ==
  /\ th[t].pc = "stage2_jid"
  /\ \E queryOk \in BOOLEAN :
       /\ Fault(~queryOk)
       /\ th' = [th EXCEPT ![t] =
                   IF ~queryOk \/ jail.Jid = 0 THEN Panicked(th[t])
                   ELSE [th[t] EXCEPT !.jid = jail.Jid, !.pc = "stage2_launch"]]
  /\ UNCHANGED <<pod, fs, jail, store, hist, nops>>

\* The stage2 launcher is run with the argument vector.
Stage2Launch(t) ==
  /\ th[t].pc = "stage2_launch"
  /\ \E ok \in BOOLEAN :
       /\ Fault(~ok)
       /\ LET args == Stage2Args(th[t].jid, th[t].name, th[t].app[1])
              rec == Logged(th[t], <<Event("stage2", args)>>)
          IN th' = [th EXCEPT ![t] =
                      Done(rec, IF ok THEN NoErr ELSE Err("Command", <<"stage2">>))]
  /\ UNCHANGED <<pod, fs, jail, store, hist, nops>>

\* The caller takes the result; it may call the next operation.
Return(t) ==
  /\ th[t].pc = "done"
  /\ th' = [th EXCEPT ![t] = IdleThread]
  /\ UNCHANGED <<pod, fs, jail, store, hist, nops, faults>>

(***************************************************************************)
(* The OS: a dying jail is reaped; a running jail is removed from outside  *)
(* the controller and lingers dying.                                       *)
(***************************************************************************)
JailReaped ==
  /\ jail.Jid # 0 /\ jail.Dying
  /\ jail' = NoJailStatus
  /\ UNCHANGED <<pod, fs, store, th, hist, nops, faults>>

JailRemovedOutside ==
  /\ jail.Jid # 0 /\ ~jail.Dying
  /\ jail' = JailStatus(jail.Jid, TRUE)
  /\ UNCHANGED <<pod, fs, store, th, hist, nops, faults>>

Next ==
  \/ \E t \in DOMAIN th :
       \/ Save(t)
       \/ Load(t)
       \/ CallKill(t)
       \/ KillStatus(t)
       \/ KillRemove(t)
       \/ CallDestroy(t)
       \/ DestroyDataset(t)
       \/ DestroyRemove(t)
       \/ CallStage2(t)
       \/ Stage2Create(t)
       \/ Stage2Jid(t)
       \/ Stage2Launch(t)
       \/ Return(t)
  \/ JailReaped
  \/ JailRemovedOutside

Spec == Init /\ [][Next]_vars

(***************************************************************************)
(* The start attempts of a new pod over the resolver's manifests and       *)
(* images: the entry points, runJail("-c"), the launch.                    *)
(***************************************************************************)
InitPrep ==
  /\ store \in [{ImageID} -> ImageChoices]
  /\ \E m \in ResolverManifests : pod = [Manifest |-> m, sealed |-> FALSE]
  /\ fs = FreshFs
  /\ jail = NoJailStatus
  /\ th = [t \in {1} |-> IdleThread]
  /\ hist = [loads |-> 0, saves |-> 0, saved |-> <<>>, serialized |-> TRUE]
  /\ nops = 0
  /\ faults = 0

NextPrep ==
  \E t \in DOMAIN th :
    \/ CallStage2(t)
    \/ Stage2Create(t)
    \/ Stage2Jid(t)
    \/ Stage2Launch(t)
    \/ Return(t)

SpecPrep == InitPrep /\ [][NextPrep]_vars

(***************************************************************************)
(* Kill over every value of the jail's status (job id, dying flag).        *)
(***************************************************************************)
InitStatus == InitOver(LifecycleManifests, LifecycleImages, JailStatusType, {1})

NextStatus ==
  \/ \E t \in DOMAIN th :
       \/ CallKill(t)
       \/ KillStatus(t)
       \/ KillRemove(t)
       \/ Return(t)
  \/ JailReaped
  \/ JailRemovedOutside

SpecStatus == InitStatus /\ [][NextStatus]_vars

(***************************************************************************)
(* Kill under a fair OS: the statuses the OS reports of a jail (one with   *)
(* no job id is not dying), a dying jail is eventually reaped, and Kill's  *)
(* own steps are eventually taken.                                         *)
(***************************************************************************)
LiveStatuses == {s \in JailStatusType : s.Jid = 0 => ~s.Dying}

KillManifests == {m \in LifecycleManifests : m.Annotations = <<>>}

InitKill == InitOver(KillManifests, LifecycleImages, LiveStatuses, {1})

KillFairness ==
  /\ WF_vars(JailReaped)
  /\ \A t \in {1} : WF_vars(KillStatus(t)) /\ WF_vars(KillRemove(t))

SpecKill == InitKill /\ [][NextStatus]_vars /\ KillFairness

(***************************************************************************)
(* Two callers on one loaded pod, serializing their operations or not:     *)
(* starts by both and Kill (which Destroy begins with) by the first, each  *)
(* a sequence of steps that interleave when nothing serializes the callers.*)
(***************************************************************************)
RaceManifest == PodManifest(<<RuntimeApp("app1", <<>>, <<>>)>>, PodVolumes, <<AnnoIp>>, <<>>)

InitRace ==
  /\ store \in [{ImageID} -> {<<Image("freebsd", <<>>)>>}]
  /\ pod = [Manifest |-> RaceManifest, sealed |-> TRUE]
  /\ fs = [FreshFs EXCEPT !.manifest = Full(Marshal(RaceManifest))]
  /\ jail \in {NoJailStatus, JailStatus(1, FALSE)}
  /\ \E serialized \in BOOLEAN :
       hist = [loads |-> 1, saves |-> 0, saved |-> <<RaceManifest>>, serialized |-> serialized]
  /\ th = [t \in {1, 2} |-> IdleThread]
  /\ nops = 0
  /\ faults = 0

NextRace ==
  \/ CallKill(1)
  \/ \E t \in DOMAIN th :
       \/ KillStatus(t)
       \/ KillRemove(t)
       \/ CallStage2(t)
       \/ Stage2Create(t)
       \/ Stage2Jid(t)
       \/ Stage2Launch(t)
       \/ Return(t)
  \/ JailReaped

SpecRace == InitRace /\ [][NextRace]_vars

(***************************************************************************)
(* The manifest store: Save and Load on the pod object, and LoadPod, which *)
(* opens the saved pod in a new object.                                    *)
(***************************************************************************)
InitStore == InitOver(LifecycleManifests, LifecycleImages, {NoJailStatus}, {1})

NextStore ==
  \E t \in DOMAIN th :
    \/ Save(t)
    \/ Load(t)
    \/ LoadPod(t)
    \/ Return(t)

SpecStore == InitStore /\ [][NextStore]_vars
(***************************************************************************)
(* Properties.                                                             *)
(***************************************************************************)
\* The events of kind ev in a trace.
EventsOf(log, ev) == {i \in 1..Len(log) : log[i].ev = ev}

\* The step of Destroy an event belongs to: 1 Kill (the jail command and
\* the files its resolver writes), 2 dataset destruction, 3 directory removal.
DestroyStepOf(e) == IF e.ev = "zfs" THEN 2 ELSE IF e.ev = "removeAll" THEN 3 ELSE 1

\* The step of Destroy a returned error comes from.
DestroyStepOfError(err) ==
  IF err = Err("Command", <<"zfs", "destroy">>) THEN 2
  ELSE IF err = Err("IO", <<"removeAll">>) THEN 3
  ELSE 1

C2_KillStopped ==
  /\ [](\A t \in DOMAIN th :
          (th[t].op = "Kill" /\ th[t].observed # <<>> /\ th[t].observed[1] = PodStatusStopped)
            => /\ th[t].pc \in {"done"}
               /\ th[t].ret = NoErr
               /\ th[t].log = <<>>
               /\ ~th[t].prep.ran
               /\ th[t].sleeps = 0
               /\ Len(th[t].observed) = 1)
  /\ [][\A t \in DOMAIN th :
          (th[t].op = "Kill" /\ th[t].pc = "kill_status" /\ th[t].observed = <<>>
             /\ jail.Jid = 0 /\ th'[t] # th[t] /\ th'[t].pc # "panicked")
            => /\ th'[t].pc = "done" /\ th'[t].ret = NoErr
               /\ UNCHANGED <<pod, fs, jail, store>>]_vars

\* A Kill that found the pod Stopped and has returned.
C2_Witness ==
  \E t \in DOMAIN th :
    /\ th[t].op = "Kill" /\ th[t].pc = "done"
    /\ th[t].observed = <<PodStatusStopped>>

\* The status Kill read in this step: the last one it recorded.
StatusRead(rec) == rec.observed[Len(rec.observed)]

C10_SealProtocol ==
  /\ [](hist.loads <= 1 /\ ((hist.loads > 0 \/ hist.saves > 0) => pod.sealed))
  /\ [][/\ pod.sealed => pod'.sealed
        /\ hist.saves > 0 => hist'.loads = hist.loads
        /\ \A t \in DOMAIN th :
             (th[t].pc = "idle" /\ th'[t].op \in {"Load", "Save"} /\ th'[t].pc = "done"
                /\ th'[t].ret = NoErr) => pod'.sealed
        /\ \A t \in DOMAIN th :
             (th[t].pc = "idle" /\ th'[t].op = "Load" /\ pod.sealed)
               => /\ th'[t].pc = "panicked"
                  /\ th'[t].log = <<>>
                  /\ pod' = pod /\ fs' = fs /\ hist' = hist]_vars

\* A Load was called on a pod a successful Save had sealed.
C10_Witness ==
  \E t \in DOMAIN th :
    /\ th[t].op = "Load" /\ th[t].pc = "panicked"
    /\ pod.sealed /\ hist.saves > 0

(***************************************************************************)
(* Properties of the start attempt and of the resolver, stated on the      *)
(* manifest and the image by themselves.                                   *)
(***************************************************************************)
\* The entry points that reach Stage2.
StartOps == {"RunApp", "RunNthApp", "Console"}

VolumeKnown(m, mnt) == \E i \in 1..Len(m.Volumes) : m.Volumes[i].Name = mnt.Volume

MountPointKnown(imgApp, mnt) ==
  \E i \in 1..Len(imgApp.MountPoints) : imgApp.MountPoints[i].Name = mnt.MountPoint

\* The image's mount points no binding of the application names.
MissingMountPoints(app, imgApp) ==
  {imgApp.MountPoints[i].Name : i \in 1..Len(imgApp.MountPoints)}
    \ {app.Mounts[i].MountPoint : i \in 1..Len(app.Mounts)}

\* The bindings that do not resolve.
UnresolvedBindings(m, imgApp) ==
  {i \in 1..Len(m.Apps[1].Mounts) :
     ~VolumeKnown(m, m.Apps[1].Mounts[i]) \/ ~MountPointKnown(imgApp, m.Apps[1].Mounts[i])}

\* A resolver run of caller t on a one-application manifest whose image is
\* in the store and declares an application template.
RanWithTemplate(t) ==
  /\ th[t].prep.ran
  /\ Len(th[t].prep.m.Apps) = 1
  /\ store[th[t].prep.m.Apps[1].Image] # <<>>
  /\ store[th[t].prep.m.Apps[1].Image][1].App # <<>>

TemplateOf(t) == store[th[t].prep.m.Apps[1].Image][1].App[1]

\* A requirement of the resolver is unresolved: no image; with an
\* application template, a binding naming an unknown volume or mount point
\* or a mount point left unfulfilled; a failed I/O call.
Unresolved(t) ==
  \/ store[th[t].prep.m.Apps[1].Image] = <<>>
  \/ /\ RanWithTemplate(t)
     /\ \/ UnresolvedBindings(th[t].prep.m, TemplateOf(t)) # {}
        \/ MissingMountPoints(th[t].prep.m.Apps[1], TemplateOf(t)) # {}
  \/ th[t].prep.io.failAt # "none"

C5_WriteThenActivate ==
  \A t \in DOMAIN th :
    \A i \in EventsOf(th[t].log, "jail") :
      th[t].log[i].arg = "-c" =>
        LET log == th[t].log
            res == th[t].prep.res
        IN /\ \E j \in 1..(i - 1) : log[j] = Event("write", "jailConf")
           /\ fs.jailConf.st = "full"
           /\ Len(res.fstab) > 0
                => /\ \E j \in 1..(i - 1) :
                        /\ log[j] = Event("write", "fstab")
                        /\ \E k \in (j + 1)..(i - 1) : log[k] = Event("write", "jailConf")
                   /\ fs.fstab = Full(res.fstab)
           /\ \A j \in (i + 1)..Len(log) : log[j].ev \notin {"write", "mkdir", "chmod", "chown"}

\* The create-jail command was issued for a pod with mount-table lines.
C5_Witness ==
  \E t \in DOMAIN th :
    /\ Len(th[t].prep.res.fstab) > 0
    /\ \E i \in EventsOf(th[t].log, "jail") : th[t].log[i].arg = "-c"
    /\ jail.Jid # 0

\* The first binding that does not resolve, 0 when all do.
FirstUnresolved(m, imgApp) ==
  LET bad == UnresolvedBindings(m, imgApp)
  IN IF bad = {} THEN 0 ELSE CHOOSE k \in bad : \A j \in bad : k <= j

\* A resolver run that meets, with no I/O failure, a binding naming a
\* volume the manifest does not have (after bindings that resolve).
MeetsUnknownVolume(t) ==
  /\ RanWithTemplate(t)
  /\ th[t].prep.io.failAt = "none"
  /\ FirstUnresolved(th[t].prep.m, TemplateOf(t)) # 0
  /\ ~VolumeKnown(th[t].prep.m,
                  th[t].prep.m.Apps[1].Mounts[FirstUnresolved(th[t].prep.m, TemplateOf(t))])

\* The kinds of event that change the files.
Mutations == {"write", "mkdir", "chmod", "chown"}

RanPastBindings(t) ==
  /\ RanWithTemplate(t)
  /\ UnresolvedBindings(th[t].prep.m, TemplateOf(t)) = {}
  /\ th[t].prep.io.failAt \in {"none", "write:fstab", "write:jail.conf"}

\* C7: after the bindings are processed, when some mount point the image
\* declares is named by no binding the resolver fails and its error lists
\* exactly those mount points, each once (nothing is written after the
\* copy of resolv.conf); it goes on to the fstab and jail.conf step only
\* when there is none.
C7_Unfulfilled ==
  \A t \in DOMAIN th :
    RanPastBindings(t)
      => LET missing == MissingMountPoints(th[t].prep.m.Apps[1], TemplateOf(t))
             res == th[t].prep.res
         IN IF missing # {}
            THEN /\ res.err.kind = "UnfulfilledMountPoints"
                 /\ {res.err.detail[i] : i \in 1..Len(res.err.detail)} = missing
                 /\ Len(res.err.detail) = Cardinality(missing)
                 /\ \A i \in 1..Len(res.log) :
                      res.log[i] \notin {Event("write", "fstab"), Event("write", "jailConf")}
                 /\ th[t].ret = res.err
            ELSE /\ res.err.kind # "UnfulfilledMountPoints"
                 /\ \/ res.fatal
                    \/ \E i \in 1..Len(res.log) :
                         res.log[i] \in {Event("write", "fstab"), Event("write", "jailConf")}

\* The image declares data and config, the manifest binds only data: the
\* resolver failed listing config.
C7_Witness ==
  \E t \in DOMAIN th :
    /\ RanPastBindings(t)
    /\ TemplateOf(t).MountPoints = <<MountPointData, MountPointConfig>>
    /\ th[t].prep.m.Apps[1].Mounts = <<Mount("v1", "data")>>
    /\ th[t].prep.res.err = Err("UnfulfilledMountPoints", <<"config">>)

\* The mount-table line each binding that resolves must give: the host
\* volume's source, or the directory of the empty volume (the second of the
\* manifest, index 1); read-only when the volume or the mount point is.
ExpectedLine(mnt) ==
  IF mnt = Mount("v1", "data") THEN "/srv/v1 /pods/u1/rootfs/data nullfs rw 0 0\n"
  ELSE "/pods/u1/volumes/1 /pods/u1/rootfs/etc/app nullfs ro 0 0\n"

ExpectedCompat(img) ==
  IF img.os = "linux"
  THEN <<"linsys /pods/u1/rootfs/sys linsysfs  rw 0 0\n",
         "linproc /pods/u1/rootfs/proc linprocfs rw 0 0\n">>
  ELSE <<>>

\* A resolver run that succeeded on a one-application manifest.
Resolved(t) ==
  /\ th[t].prep.ran
  /\ Len(th[t].prep.m.Apps) = 1
  /\ th[t].prep.res.err = NoErr /\ ~th[t].prep.res.fatal

ImageOf(t) == store[th[t].prep.m.Apps[1].Image][1]

\* C8 as stated: whenever the resolver succeeds on a one-application
\* manifest the mount table is the Linux compatibility lines (os linux)
\* followed by one line per declared binding, in declaration order.
C8_OneLinePerMount ==
  \A t \in DOMAIN th :
    Resolved(t)
      => th[t].prep.res.fstab =
           ExpectedCompat(ImageOf(t))
             \o [i \in 1..Len(th[t].prep.m.Apps[1].Mounts) |->
                   ExpectedLine(th[t].prep.m.Apps[1].Mounts[i])]

\* C8: whenever the resolver succeeds on a one-application manifest whose
\* image declares an application template, the mount table is the two
\* Linux compatibility lines (os linux) followed by one line per declared
\* binding, in declaration order, and that is what the fstab file holds;
\* when the image declares no template the bindings give no line and the
\* table is the compatibility lines alone.
C8_FstabLines ==
  \A t \in DOMAIN th :
    Resolved(t)
      => LET mounts == th[t].prep.m.Apps[1].Mounts
             res == th[t].prep.res
             lines == IF ImageOf(t).App = <<>> THEN <<>>
                      ELSE [i \in 1..Len(mounts) |-> ExpectedLine(mounts[i])]
         IN /\ res.fstab = ExpectedCompat(ImageOf(t)) \o lines
            /\ Len(res.fstab) > 0 => res.fs.fstab = Full(res.fstab)
            /\ Len(res.fstab) = 0 => Event("write", "fstab") \notin
                                       {res.log[i] : i \in 1..Len(res.log)}

\* A Linux image with two mount points, both bound: four lines.
C8_Witness ==
  \E t \in DOMAIN th :
    /\ Resolved(t)
    /\ ImageOf(t).os = "linux"
    /\ th[t].prep.m.Apps[1].Mounts = <<Mount("v1", "data"), Mount("v2", "config")>>
    /\ Len(th[t].prep.res.fstab) = 4

\* A resolver run that reaches the build of jail.conf and whose write of it
\* is not made to fail.
BuilderReached(t) ==
  /\ th[t].prep.ran
  /\ Len(th[t].prep.m.Apps) = 1
  /\ store[th[t].prep.m.Apps[1].Image] # <<>>
  /\ \/ ImageOf(t).App = <<>>
     \/ /\ UnresolvedBindings(th[t].prep.m, TemplateOf(t)) = {}
        /\ MissingMountPoints(th[t].prep.m.Apps[1], TemplateOf(t)) = {}
  /\ th[t].prep.io.failAt = "none"

\* The annotations of that name, by position.
Named(annos, name) == {i \in 1..Len(annos) : annos[i].Name = name}

\* The lines of the written jail.conf that set ip4.addr.
Ip4AddrLines(t) ==
  {th[t].prep.res.fs.jailConf.data.lines[i] :
     i \in {j \in 1..Len(th[t].prep.res.fs.jailConf.data.lines) :
              HasPrefix(th[t].prep.res.fs.jailConf.data.lines[j], "  ip4.addr=")}}

\* C9 as stated: without an ip-address annotation the build is fatal; with
\* it, ip4.addr in the configuration is that annotation's value, whatever
\* annotations the manifest carries under jetpack/jail.conf/.
C9_Ip4AddrIsAnnotation ==
  \A t \in DOMAIN th :
    BuilderReached(t)
      => LET annos == th[t].prep.m.Annotations
             ips == Named(annos, "ip-address")
         IN IF ips = {} THEN th[t].prep.res.fatal
            ELSE /\ ~th[t].prep.res.fatal
                 /\ Ip4AddrLines(t) =
                      {"  ip4.addr=\"" \o annos[CHOOSE k \in ips : \A j \in ips : k <= j].Value
                         \o "\";"}

\* C9: without an ip-address annotation the build of jail.conf is fatal
\* (nothing is written, no jail command is issued); with it, the
\* configuration has one ip4.addr line, whose value is the ip-address
\* annotation's unless the manifest carries an annotation
\* jetpack/jail.conf/ip4.addr, whose value (the last one's) then replaces it.
C9_Ip4Addr ==
  \A t \in DOMAIN th :
    BuilderReached(t)
      => LET annos == th[t].prep.m.Annotations
             ips == Named(annos, "ip-address")
             over == Named(annos, "jetpack/jail.conf/ip4.addr")
             value == IF over # {} THEN annos[CHOOSE k \in over : \A j \in over : j <= k].Value
                      ELSE annos[CHOOSE k \in ips : \A j \in ips : k <= j].Value
         IN IF ips = {}
            THEN /\ th[t].prep.res.fatal
                 /\ th[t].pc = "panicked"
                 /\ Event("write", "jailConf") \notin
                      {th[t].prep.res.log[i] : i \in 1..Len(th[t].prep.res.log)}
                 /\ EventsOf(th[t].log, "jail") = {}
            ELSE /\ ~th[t].prep.res.fatal
                 /\ th[t].prep.res.fs.jailConf.st = "full"
                 /\ Ip4AddrLines(t) = {"  ip4.addr=\"" \o value \o "\";"}

\* jail.conf was written for a manifest that carries both the ip-address
\* annotation and jetpack/jail.conf/ip4.addr: the latter's value is in it.
C9_Witness ==
  \E t \in DOMAIN th :
    /\ BuilderReached(t)
    /\ th[t].prep.m.Annotations = <<AnnoIp, AnnoIpOverride>>
    /\ Ip4AddrLines(t) = {"  ip4.addr=\"10.9.9.9\";"}

(***************************************************************************)
(* Properties of the manifest store.                                       *)
(***************************************************************************)
\* One application, no isolator.
SingleAppNoIsolators(m) == Len(m.Apps) = 1 /\ Len(m.Isolators) = 0

\* C11 as stated: in every reachable state a sealed pod (sealed by a
\* successful Load or Save) has exactly one application and no isolators.
C11_SealedIsSingleApp == pod.sealed => SingleAppNoIsolators(pod.Manifest)

\* C11: in every reachable state a pod object on which a Load has succeeded
\* has exactly one application and no isolators, and every Load that
\* succeeds leaves such a manifest; Save seals the manifest the object
\* holds without looking at it.
C11_LoadedIsSingleApp ==
  /\ [](hist.loads > 0 => pod.sealed /\ SingleAppNoIsolators(pod.Manifest))
  /\ [][\A t \in DOMAIN th :
          (th[t].pc = "idle" /\ th'[t].op = "Load" /\ th'[t].pc = "done"
             /\ th'[t].ret = NoErr) => SingleAppNoIsolators(pod'.Manifest)]_vars

\* A Load has succeeded and its caller has the result.
C11_Witness ==
  \E t \in DOMAIN th :
    /\ th[t].op = "Load" /\ th[t].pc = "done" /\ th[t].ret = NoErr
    /\ hist.loads > 0 /\ pod.sealed

\* A LoadPod step of caller t that reads the manifest a Save has written,
\* with no injected failure.
LoadPodReads(t) ==
  /\ th[t].pc = "idle" /\ th'[t].op = "LoadPod"
  /\ hist.saves > 0 /\ hist.saved # <<>> /\ fs.manifest.st = "full"
  /\ th'[t].pc = "done"
  /\ th'[t].ret # Err("IO", <<"read:manifest">>)

UnknownApp(t) ==
  /\ th[t].pc = "idle"
  /\ \/ th'[t].op = "RunApp" /\ AppsGet(pod.Manifest.Apps, th'[t].name) = 0
     \/ th'[t].op = "RunNthApp" /\ Len(pod.Manifest.Apps) <= th'[t].idx

JailOpsAdded(t) ==
  Cardinality(EventsOf(th'[t].log, "jail")) - Cardinality(EventsOf(th[t].log, "jail"))

\* Caller t reads the status in this step (the switch of Kill), and reads s.
KillReads(t, s) ==
  /\ th[t].pc = "kill_status" /\ th'[t] # th[t] /\ th'[t].pc # "panicked"
  /\ StatusRead(th'[t]) = s

\* Caller t runs the Running branch of Kill in this step.
KillRemoves(t) == th[t].pc = "kill_remove" /\ th'[t] # th[t]

\* C14 as stated: every iteration that observed Running issues exactly one
\* remove-jail operation and then re-checks the status.
C14_RunningAlwaysRemoves ==
  [][\A t \in DOMAIN th :
       KillRemoves(t) => JailOpsAdded(t) = 1 /\ th'[t].pc = "kill_status"]_vars

\* C14, amended: the status read alone chooses the branch.  An iteration
\* that observed Running calls runJail("-r") once: at most one remove-jail
\* operation is issued (none exactly when preparing the jail fails), and the
\* status is re-checked only after an operation that was issued and took
\* the jail out of Running; otherwise Kill returns the error of the
\* preparation or of the operation, the jail as it was (or the preparation
\* was fatal).  An
\* iteration that observed Dying issues no jail operation, sleeps the
\* backoff and re-checks.  A remove-jail operation is issued only by a
\* caller whose last observed status is Running.
C14_KillLoop ==
  [][\A t \in DOMAIN th :
       /\ KillReads(t, PodStatusRunning) =>
            /\ th'[t].pc = "kill_remove" /\ th'[t].log = th[t].log
            /\ UNCHANGED <<pod, fs, jail>>
       /\ KillReads(t, PodStatusDying) =>
            /\ th'[t].pc = "kill_status"
            /\ th'[t].log = Append(th[t].log, Event("sleep", "2500ms"))
            /\ UNCHANGED <<pod, fs, jail>>
       /\ KillReads(t, PodStatusStopped) =>
            /\ th'[t].pc \in {"done", "destroy_dataset"} /\ th'[t].log = th[t].log
            /\ UNCHANGED <<pod, fs, jail>>
       /\ (th[t].pc = "kill_status" /\ th'[t] # th[t] /\ th'[t].pc # "panicked") =>
            StatusRead(th'[t]) = Status(jail)
       /\ KillRemoves(t) =>
            /\ StatusRead(th[t]) = PodStatusRunning
            /\ JailOpsAdded(t) \in {0, 1}
            /\ th'[t].pc \in {"kill_status", "done", "panicked"}
            /\ th'[t].pc = "kill_status" =>
                 JailOpsAdded(t) = 1 /\ Status(jail') # PodStatusRunning
            /\ th'[t].pc = "done" =>
                 /\ th'[t].ret # NoErr /\ jail' = jail
                 /\ JailOpsAdded(t) = 1 <=> th'[t].ret = Err("Command", <<"jail", "-r">>)
            /\ JailOpsAdded(t) = 0 <=> (th'[t].prep.res.err # NoErr \/ th'[t].prep.res.fatal)
       /\ (\E k \in DOMAIN th'[t].log :
             /\ k > Len(th[t].log)
             /\ th'[t].log[k] = Event("jail", "-r")) =>
            /\ th[t].pc = "kill_remove"
            /\ StatusRead(th[t]) = PodStatusRunning]_vars

\* A Kill that observed Running, removed the jail once, observed Dying,
\* slept once, observed Stopped and returned.
C14_Witness ==
  \E t \in DOMAIN th :
    /\ th[t].op = "Kill" /\ th[t].pc = "done"
    /\ th[t].observed = <<PodStatusRunning, PodStatusDying, PodStatusStopped>>
    /\ Cardinality(EventsOf(th[t].log, "jail")) = 1
    /\ Cardinality(EventsOf(th[t].log, "sleep")) = 1

\* C15: whenever Kill has returned nil the last status it read is Stopped;
\* whenever it has returned an error the last status it read is Running
\* and the error is the one runJail("-r") gave in that branch.  The same
\* holds of the Kill inside Destroy: Destroy goes on to the dataset only
\* from an iteration that read Stopped.
C15_KillReturn ==
  /\ [](\A t \in DOMAIN th :
          (th[t].op = "Kill" /\ th[t].pc = "done") =>
            /\ th[t].ret = NoErr => StatusRead(th[t]) = PodStatusStopped
            /\ th[t].ret # NoErr =>
                 /\ StatusRead(th[t]) = PodStatusRunning
                 /\ th[t].prep.ran
                 /\ th[t].ret # Err("Confused", <<th[t].status>>))
  /\ [][\A t \in DOMAIN th :
          /\ (th[t].pc = "kill_status" /\ th'[t].pc \in {"done", "destroy_dataset"}) =>
               th'[t].ret = NoErr /\ StatusRead(th'[t]) = PodStatusStopped
          /\ (th[t].pc = "kill_remove" /\ th'[t].pc = "done") =>
               th'[t].ret # NoErr /\ StatusRead(th[t]) = PodStatusRunning]_vars

\* A Kill that returned the error of a failed remove-jail operation.
C15_Witness ==
  \E t \in DOMAIN th :
    /\ th[t].op = "Kill" /\ th[t].pc = "done" /\ th[t].ret # NoErr
    /\ StatusRead(th[t]) = PodStatusRunning
    /\ EventsOf(th[t].log, "jail") # {}


(***************************************************************************)
(* C16: termination of Kill.                                               *)
(***************************************************************************)
\* Caller t is inside Kill.
InKill(t) == th[t].op = "Kill" /\ th[t].pc \in {"kill_status", "kill_remove"}

\* Caller t leaves Kill in this step by a return.
KillReturns(t) == InKill(t) /\ th'[t].pc = "done"

Issues(t, ev, arg) ==
  \E k \in DOMAIN th'[t].log : k > Len(th[t].log) /\ th'[t].log[k] = Event(ev, arg)

\* Caller t passes Stage2's job id check in this step: it read a job id
\* that is not 0 and goes on to the launch.
PassesJidCheck(t) == th[t].pc \in {"idle", "stage2_jid"} /\ th'[t].pc = "stage2_launch"

\* Stage2 creates the jail only after it read job id 0, and halts fatally
\* when the job id it reads after the create is 0.
Stage2CreateGuards(t) ==
  /\ Issues(t, "jail", "-c") => th[t].pc = "stage2_create" /\ th[t].jid = 0
  /\ (th[t].pc = "stage2_jid" /\ th'[t] # th[t] /\ jail.Jid = 0) => th'[t].pc = "panicked"
  /\ (th[t].pc = "stage2_create" /\ th'[t].pc = "stage2_jid") =>
       Issues(t, "jail", "-c") /\ th'[t].prep.res.err = NoErr

\* C17 as stated: the create only after job id 0 was observed, a fatal halt
\* when it is still 0 after the create, and the launch only with the job id,
\* not 0, that Stage2 read of a jail that is running, not dying.
C17_LaunchIntoRunning ==
  [][\A t \in DOMAIN th :
       /\ Stage2CreateGuards(t)
       /\ PassesJidCheck(t) =>
            th'[t].jid # 0 /\ jail = JailStatus(th'[t].jid, FALSE)
       /\ (th[t].pc = "stage2_launch" /\ th'[t] # th[t]) =>
            \E k \in DOMAIN th'[t].log :
              /\ th'[t].log[k].ev = "stage2"
              /\ th'[t].log[k].arg[2] = Itoa(th[t].jid)]_vars

\* C17, the part that holds: the same, but the job id the launch carries is
\* the jail's job id, not 0, as Stage2 read it, of a jail that may be dying.
C17_Stage2Guards ==
  [][\A t \in DOMAIN th :
       /\ Stage2CreateGuards(t)
       /\ PassesJidCheck(t) => th'[t].jid # 0 /\ jail.Jid = th'[t].jid
       /\ (th[t].pc = "stage2_launch" /\ th'[t] # th[t]) =>
            /\ th[t].jid # 0
            /\ Issues(t, "stage2", Stage2Args(th[t].jid, th[t].name, th[t].app[1]))
            /\ Stage2Args(th[t].jid, th[t].name, th[t].app[1])[2] = Itoa(th[t].jid)]_vars

\* A start that found no jail, created it and launched the application.
C17_Witness ==
  \E t \in DOMAIN th :
    /\ th[t].op \in StartOps /\ th[t].pc = "done" /\ th[t].ret = NoErr
    /\ th[t].jid # 0
    /\ \E k \in DOMAIN th[t].log : th[t].log[k] = Event("jail", "-c")
    /\ \E k \in DOMAIN th[t].log : th[t].log[k].ev = "stage2"


(***************************************************************************)
(* C18: where the Mount Resolver runs.                                     *)
(***************************************************************************)
\* Caller t is inside Kill, called by itself or by Destroy.
InKillLoop(t) == th[t].pc \in {"kill_status", "kill_remove"}

\* C18 as stated: no step of Kill, alone or inside Destroy, runs the
\* resolver or touches the pod's files or the manifest's annotations, and a
\* Kill never returns the resolver's error.
C18_KillNeverResolves ==
  /\ [][\A t \in DOMAIN th :
          (InKillLoop(t) /\ th'[t] # th[t])
            => ~th'[t].prep.ran /\ fs' = fs /\ pod' = pod]_vars
  /\ [](\A t \in DOMAIN th :
          (th[t].op \in {"Kill", "Destroy"} /\ th[t].pc = "done" /\ th[t].prep.ran)
            => th[t].prep.res.err = NoErr)

\* C18, the part that holds: the resolver runs in the callers of runJail
\* and nowhere else.  A start runs it at most once, in its create step, and
\* a start that finds a job id runs none; but every iteration of Kill that
\* observed Running runs it too, on the manifest the pod object holds, and
\* returns its error without issuing the remove-jail operation.
C18_ResolverRuns ==
  [][\A t \in DOMAIN th :
       /\ (th'[t].prep.ran /\ th'[t].prep # th[t].prep)
            => th[t].pc \in {"stage2_create", "kill_remove"}
       /\ (th[t].pc \in {"stage2_create", "kill_remove"} /\ th'[t] # th[t])
            => /\ th'[t].prep.ran /\ th'[t].prep.m = pod.Manifest
               /\ th'[t].pc # "stage2_create"
               /\ th'[t].prep.res.err # NoErr
                    => /\ th'[t].pc = "done" /\ th'[t].ret = th'[t].prep.res.err
                       /\ JailOpsAdded(t) = 0 /\ jail' = jail
       /\ th'[t].pc = "stage2_create" => th[t].pc \in {"idle", "stage2_create"}
       /\ (th[t].pc = "idle" /\ th'[t].pc = "stage2_launch") => ~th'[t].prep.ran]_vars

\* A Kill of a running pod that ran the resolver, got its error and
\* returned it, the jail still running.
C18_Witness ==
  \E t \in DOMAIN th :
    /\ th[t].op = "Kill" /\ th[t].pc = "done"
    /\ th[t].observed = <<PodStatusRunning>>
    /\ th[t].prep.ran /\ th[t].prep.res.err # NoErr /\ th[t].ret = th[t].prep.res.err
    /\ EventsOf(th[t].log, "jail") = {}
    /\ Status(jail) = PodStatusRunning
    /\ pod.sealed


(***************************************************************************)
(* C19: the fstab hand-off.                                                *)
(***************************************************************************)
\* The resolver's run by caller t succeeded.
Succeeded(t) ==
  th[t].prep.ran /\ th[t].prep.res.err = NoErr /\ ~th[t].prep.res.fatal

\* The run wrote the file.
Wrote(r, file) == \E k \in DOMAIN r.log : r.log[k] = Event("write", file)

\* The lines of the jail.conf the run left that set the key mount.fstab.
MountFstabLines(r) ==
  {k \in DOMAIN r.fs.jailConf.data.lines :
     HasPrefix(r.fs.jailConf.data.lines[k], "  mount.fstab=")}

\* C19: after every successful run of the resolver, the fstab file is
\* written, with the lines produced, and the annotation
\* jetpack/jail.conf/mount.fstab is set to the fstab's path exactly when at
\* least one line was produced; the jail.conf of that run then has the key
\* mount.fstab once, with the fstab's path as its value.  When no line was
\* produced the run writes no fstab and leaves the annotations as they were.
C19_FstabHandOff ==
  \A t \in DOMAIN th :
    Succeeded(t) =>
      LET r == th[t].prep.res
          before == th[t].prep.m.Annotations
      IN /\ Wrote(r, "fstab") <=> Len(r.fstab) > 0
         /\ r.annotations # before => Len(r.fstab) > 0
         /\ Len(r.fstab) > 0 =>
              /\ r.fs.fstab = Full(r.fstab)
              /\ r.annotations = AnnotationsSet(before, FstabAnnotation, Path("fstab"))
              /\ AnnotationsGet(r.annotations, FstabAnnotation)
                   = [ok |-> TRUE, value |-> Path("fstab")]
              /\ Wrote(r, "jailConf") /\ r.fs.jailConf.st = "full"
              /\ \E k \in MountFstabLines(r) :
                   /\ MountFstabLines(r) = {k}
                   /\ r.fs.jailConf.data.lines[k] = ConfLine("mount.fstab", Path("fstab"))
         /\ Len(r.fstab) = 0 =>
              /\ r.annotations = before
              /\ ~AnnotationsGet(before, FstabAnnotation).ok => MountFstabLines(r) = {}

\* A successful run that produced lines where the manifest had no fstab
\* annotation, and left the annotation and the key in jail.conf.
C19_Witness ==
  \E t \in DOMAIN th :
    /\ Succeeded(t)
    /\ Len(th[t].prep.res.fstab) > 0
    /\ ~AnnotationsGet(th[t].prep.m.Annotations, FstabAnnotation).ok
    /\ AnnotationsGet(pod.Manifest.Annotations, FstabAnnotation).ok
    /\ MountFstabLines(th[t].prep.res) # {}


(***************************************************************************)
(* C20: concurrent callers.                                                *)
(***************************************************************************)
\* Caller t is in a start that read job id 0 and has issued the create.
CreatedAfterZero(t) ==
  /\ th[t].op \in StartOps /\ th[t].pc # "idle" /\ th[t].jid = 0
  /\ \E k \in DOMAIN th[t].log : th[t].log[k] = Event("jail", "-c")

\* Both callers' starts read job id 0 and both issued the create.
DoubleCreate == \E t, u \in DOMAIN th : t # u /\ CreatedAfterZero(t) /\ CreatedAfterZero(u)

\* Caller t issues the create in this step while another caller is inside
\* Kill or Destroy.
CreateDuringStop(t) ==
  /\ Issues(t, "jail", "-c")
  /\ \E u \in DOMAIN th \ {t} :
       th[u].op \in {"Kill", "Destroy"} /\ th[u].pc \notin {"idle", "done", "panicked"}

\* C20: Pod holds no lock, so callers that do not serialize interleave (the
\* witness: both starts read job id 0 and both issue the create).  When the
\* callers serialize, at most one call is under way, no two starts have both
\* issued the create after reading job id 0, and every create is issued with
\* no jail there and with no Kill or Destroy of another caller in progress.
C20_SerializedNoRace ==
  /\ [](hist.serialized =>
          /\ Cardinality({t \in DOMAIN th : th[t].pc # "idle"}) <= 1
          /\ ~DoubleCreate)
  /\ [][\A t \in DOMAIN th :
          (hist.serialized /\ Issues(t, "jail", "-c"))
            => /\ jail = NoJailStatus
               /\ ~CreateDuringStop(t)]_vars

\* Callers that do not serialize: both starts read job id 0 and both issued
\* the create.
C20_Witness == ~hist.serialized /\ DoubleCreate

============================================================================
